---- MODULE Spec2Model ----
(***************************************************************************)
(* Exam session lifecycle of OnlineExamSystem (src/main.py) over the       *)
(* exam_results table of ExamDatabase (src/database.py).                   *)
(*                                                                         *)
(* Every Tk callback (button command, `after` callback) is one action and  *)
(* runs to completion on the single UI thread.  The only place a handler   *)
(* waits is messagebox.askyesno in submit_exam: the modal dialog runs the  *)
(* Tk event loop, so the `after` callback scheduled by update_timer still  *)
(* fires while it is open, whereas the buttons of the main window do not.  *)
(* An open confirmation is therefore a frame on the stack `dialogs`, and   *)
(* answering it is an action of its own.                                   *)
(*                                                                         *)
(* Spec is the exam session.  The parts of the program that do not touch   *)
(* a session have specifications of their own over the same variables:     *)
(* SpecQuestions (ExamDatabase.get_questions), SpecUsers (the users table  *)
(* under registration and seeding), SpecAnalytics (get_detailed_analytics  *)
(* over exam_results), SpecConfig (ExamConfig of src/config.py) and       *)
(* SpecNavigation (the admin's screens and the stack behind Back).         *)
(***************************************************************************)
EXTENDS Integers, Sequences, FiniteSets, TLC

\* ---------------------------------------------------------------- bounds
ExamDuration == 3
MaxResults == 1
MaxLimit == 3
MaxUsers == 5
MaxRows == 11
MaxStack == 3

\* ------------------------------------------------------------- constants
QuestionsPerExam == 10
AnalyticsLimit == 10
NoUser == 0
Users == {1}
NoSelection == ""
Options == {"A", "B", "C", "D"}
\* the letters the modelled user clicks
Choices == {"A", "B"}

\* rows the questions table may hold
Bank ==
  { [id |-> 1, correct_option |-> "B", category |-> "Mathematics", difficulty |-> "Easy", points |-> 1],
    [id |-> 2, correct_option |-> "A", category |-> "Mathematics", difficulty |-> "Hard", points |-> 3] }

EmptyDict == << >>

\* Python's None, and what "if x:" tests for an optional string argument
None == "None"
Truthy(x) == x \notin {None, ""}

\* rows the questions table may hold when get_questions is called with filters
StoredQuestions ==
  Bank \cup
  { [id |-> 3, correct_option |-> "C", category |-> "Science", difficulty |-> "Easy", points |-> 1] }
CategoryArgs == {None, "Mathematics", "Science"}
DifficultyArgs == {None, "Easy", "Hard"}

\* what the registration forms' entry fields may hold
UsernameEntries == {"", "al", "bob", " bob ", "student1"}
PasswordEntries == {"pw", "secret1"}
FullNameEntries == {"", "Bob"}

\* the users whose results the analytics are asked for
ResultUsers == {1, 2}

\* the value of `call` before any database call was made
NoCall == [fn |-> "none"]

VARIABLES
  screen,                  \* which screen the root window shows
  current_user,
  questions,
  current_question_index,
  user_answers,            \* dict: 0-based position -> option letter
  selected_option,         \* the StringVar behind the radio buttons
  score,
  total_points,
  category_scores,         \* dict: category -> [correct, total]
  difficulty_scores,
  exam_start_time,         \* FALSE = None, TRUE = a timestamp
  time_remaining,
  timer_running,
  timer_id,                \* "None", "live" (callback pending) or "stale" (already fired)
  after_pending,           \* number of update_timer callbacks scheduled with root.after
  submit_visible,          \* the exam screen was rendered with "Submit Exam" instead of "Next"
  dialogs,                 \* stack of open askyesno confirmations, innermost last
  exam_results,            \* rows of table exam_results, in insertion order
  timed_out,               \* history: auto_submit_exam ran in this attempt
  write_failed,            \* history: save_exam_result returned False in this attempt
  call,                    \* the last ExamDatabase / ExamConfig call: arguments and result
  users,                   \* rows of table users, in insertion order
  config,                  \* ExamConfig.config
  config_file,             \* what config.json holds
  navigation_stack,        \* names of the screens Back returns to, last pushed last
  current_screen           \* name of the screen method last entered, or None

session_vars == << screen, current_user, questions, current_question_index, user_answers,
           selected_option, score, total_points, category_scores, difficulty_scores,
           exam_start_time, time_remaining, timer_running, timer_id, after_pending,
           submit_visible, dialogs, exam_results, timed_out, write_failed >>

nav_vars == << navigation_stack, current_screen >>

\* the session attributes the admin screens leave alone
exam_vars == << questions, current_question_index, user_answers,
           selected_option, score, total_points, category_scores, difficulty_scores,
           exam_start_time, time_remaining, timer_running, timer_id, after_pending,
           submit_visible, dialogs, exam_results, timed_out, write_failed >>

vars == << session_vars, call, users, config, config_file, nav_vars >>

\* The application state as one record, so that a handler is a function on it.
St ==
  [ screen |-> screen, current_user |-> current_user, questions |-> questions,
    current_question_index |-> current_question_index, user_answers |-> user_answers,
    selected_option |-> selected_option, score |-> score, total_points |-> total_points,
    category_scores |-> category_scores, difficulty_scores |-> difficulty_scores,
    exam_start_time |-> exam_start_time, time_remaining |-> time_remaining,
    timer_running |-> timer_running, timer_id |-> timer_id, after_pending |-> after_pending,
    submit_visible |-> submit_visible, dialogs |-> dialogs, exam_results |-> exam_results,
    timed_out |-> timed_out, write_failed |-> write_failed ]

Become(s) ==
  /\ screen' = s.screen
  /\ current_user' = s.current_user
  /\ questions' = s.questions
  /\ current_question_index' = s.current_question_index
  /\ user_answers' = s.user_answers
  /\ selected_option' = s.selected_option
  /\ score' = s.score
  /\ total_points' = s.total_points
  /\ category_scores' = s.category_scores
  /\ difficulty_scores' = s.difficulty_scores
  /\ exam_start_time' = s.exam_start_time
  /\ time_remaining' = s.time_remaining
  /\ timer_running' = s.timer_running
  /\ timer_id' = s.timer_id
  /\ after_pending' = s.after_pending
  /\ submit_visible' = s.submit_visible
  /\ dialogs' = s.dialogs
  /\ exam_results' = s.exam_results
  /\ timed_out' = s.timed_out
  /\ write_failed' = s.write_failed
  /\ UNCHANGED << call, users, config, config_file, nav_vars >>

\* ------------------------------------------------------------ dict helpers
\* d[k] = v on a Python dict
Put(d, k, v) == [x \in (DOMAIN d) \cup {k} |-> IF x = k THEN v ELSE d[x]]

RECURSIVE SumOver(_, _)
SumOver(f, S) ==
  IF S = {} THEN 0
  ELSE LET x == CHOOSE y \in S : TRUE IN f[x] + SumOver(f, S \ {x})

Min(a, b) == IF a <= b THEN a ELSE b

\* every order in which the rows of S can be listed
Perms(S) ==
  { f \in [1..Cardinality(S) -> S] : \A i, j \in 1..Cardinality(S) : i # j => f[i] # f[j] }

\* ORDER BY id
SortById(S) == CHOOSE f \in Perms(S) : \A i, j \in 1..Len(f) : i < j => f[i].id < f[j].id

\* LIMIT n of SQLite: the first n rows, all of them when n is negative
Limit(rows, n) == IF n < 0 THEN rows ELSE SubSeq(rows, 1, Min(n, Len(rows)))

\* mutant: the two filters are alternatives instead of both being required
get_questions_EitherFilter(table, limit, category, difficulty, randomize) ==
  LET rows   == { q \in table :
                    \/ ~Truthy(category) /\ ~Truthy(difficulty)
                    \/ Truthy(category) /\ q.category = category
                    \/ Truthy(difficulty) /\ q.difficulty = difficulty }
      orders == IF randomize THEN Perms(rows) ELSE {SortById(rows)}
  IN { Limit(o, limit) : o \in orders }

\* ExamDatabase.get_questions on a questions table: the lists it can return
get_questions(table, limit, category, difficulty, randomize) ==
  LET rows   == { q \in table :
                    /\ Truthy(category) => q.category = category
                    /\ Truthy(difficulty) => q.difficulty = difficulty }
      orders == IF randomize THEN Perms(rows) ELSE {SortById(rows)}
  IN { Limit(o, limit) : o \in orders }

\* What start_exam can get from get_questions(limit = questions_per_exam,
\* randomize = randomize_questions), whatever the questions table holds.
QuestionLists ==
  UNION { get_questions(table, QuestionsPerExam, None, None, randomize) :
            table \in SUBSET Bank, randomize \in BOOLEAN }

\* ---------------------------------------------------------- configuration
\* JSON values: a number, an object (a function on its keys), Python's None
Scalar(n) == [scalar |-> n]
Dict(d) == [dict |-> d]
NoneValue == [none |-> TRUE]
IsDict(v) == DOMAIN v = {"dict"}

\* config.json: absent, not parseable, or holding a JSON object
Missing == [missing |-> TRUE]
Invalid == [invalid |-> TRUE]
Json(d) == [json |-> d]
IsJson(f) == DOMAIN f = {"json"}

\* default_config of load_config, of which the numeric top-level entries
\* exam_duration and questions_per_exam and the nested ui_settings with
\* window_width and window_height are kept
default_config ==
  [ exam_duration |-> Scalar(600),
    questions_per_exam |-> Scalar(10),
    ui_settings |-> Dict([ window_width |-> Scalar(900), window_height |-> Scalar(700) ]) ]

\* the JSON objects config.json may hold
ConfigObjects ==
  { [k \in top \cup nested |-> IF k = "exam_duration" THEN Scalar(300) ELSE ui[k]] :
      top \in SUBSET {"exam_duration"},
      nested \in SUBSET {"ui_settings"},
      ui \in { [ui_settings |-> Dict(<< >>)],
               [ui_settings |-> Dict([window_width |-> Scalar(1000)])],
               [ui_settings |-> Dict([window_width |-> Scalar(1000), window_height |-> Scalar(800)])] } }

ConfigFiles == {Missing, Invalid} \cup { Json(d) : d \in ConfigObjects }

\* the keys get is called with
Paths ==
  { "exam_duration", "ui_settings", "ui_settings.window_width",
    "ui_settings.window_height", "exam_duration.seconds", "database_path",
    "colors.primary" }

\* the values set is called with
SetValues == { Scalar(1), Dict(<< >>) }

\* key.split('.')
split(key) ==
  CASE key = "ui_settings.window_width" -> << "ui_settings", "window_width" >>
    [] key = "ui_settings.window_height" -> << "ui_settings", "window_height" >>
    [] key = "exam_duration.seconds" -> << "exam_duration", "seconds" >>
    [] key = "colors.primary" -> << "colors", "primary" >>
    [] OTHER -> << key >>

\* {**default_config, **loaded_config}
Merge(defaults, loaded) ==
  [ k \in (DOMAIN defaults) \cup (DOMAIN loaded) |->
      IF k \in DOMAIN loaded THEN loaded[k] ELSE defaults[k] ]

\* ExamConfig.load_config on the file found; a missing file is written by save_config
load_config(file) ==
  IF file = Missing THEN [ config |-> default_config, config_file |-> Json(default_config) ]
  ELSE IF file = Invalid THEN [ config |-> default_config, config_file |-> file ]
  ELSE [ config |-> Merge(default_config, file.json), config_file |-> file ]

\* the loop of ExamConfig.get: value = value[k], KeyError or TypeError giving the default
RECURSIVE Walk(_, _, _, _)
Walk(value, keys, i, default) ==
  IF i > Len(keys) THEN value
  ELSE IF IsDict(value) /\ keys[i] \in DOMAIN value.dict
    THEN Walk(value.dict[keys[i]], keys, i + 1, default)
    ELSE default

\* ExamConfig.get
get(cfg, key, default) == Walk(Dict(cfg), split(key), 1, default)

\* what the loop and the final assignment of ExamConfig.set make of the object
\* d: the updated object, or TypeError when a key before the last one holds a
\* value that is not an object ("k not in config" or the item assignment
\* fails on it; nothing has been created by then)
TypeError == [raised |-> "TypeError"]
RECURSIVE Assign(_, _, _, _)
Assign(d, keys, i, value) ==
  IF i = Len(keys) THEN Dict(Put(d, keys[i], value))
  ELSE LET k     == keys[i]
           child == IF k \notin DOMAIN d THEN Dict(<< >>) ELSE d[k]
           sub   == IF IsDict(child) THEN Assign(child.dict, keys, i + 1, value) ELSE TypeError
       IN IF sub = TypeError THEN TypeError ELSE Dict(Put(d, k, sub))

\* mutant: the dotted key is used as one top-level key
set_Flat(cfg, file, key, value) ==
  [ config |-> Put(cfg, key, value), config_file |-> Json(Put(cfg, key, value)), raised |-> FALSE ]

\* ExamConfig.set, save_config included
set(cfg, file, key, value) ==
  LET r == Assign(cfg, split(key), 1, value)
  IN IF r = TypeError
       THEN [ config |-> cfg, config_file |-> file, raised |-> TRUE ]
       ELSE [ config |-> r.dict, config_file |-> Json(r.dict), raised |-> FALSE ]

\* ------------------------------------------------------------ users table
\* str.strip() and len() on the strings the entry fields may hold
strip(s) == IF s = " bob " THEN "bob" ELSE s
len(s) ==
  CASE s = "" -> 0
    [] s = "pw" -> 2
    [] s = "al" -> 2
    [] s = "bob" -> 3
    [] s = "Bob" -> 3
    [] s = " bob " -> 5
    [] s = "secret1" -> 7
    [] s = "student1" -> 8

\* hashlib.sha256(password.encode()).hexdigest(): the digest determines the password
hash_password(password) == << "sha256", password >>

UsernameTaken(table, username) == \E i \in 1..Len(table) : table[i].username = username

\* mutant: column username is not declared UNIQUE
create_user_NotUnique(table, username, password, full_name) ==
  [ ok |-> TRUE,
    users |-> Append(table, [ id |-> Len(table) + 1, username |-> username,
                              password_hash |-> hash_password(password),
                              full_name |-> full_name ]) ]

\* ExamDatabase.create_user: the INSERT raises IntegrityError on a taken username
create_user(table, username, password, full_name) ==
  IF UsernameTaken(table, username)
    THEN [ ok |-> FALSE, users |-> table ]
    ELSE [ ok |-> TRUE,
           users |-> Append(table, [ id |-> Len(table) + 1, username |-> username,
                                     password_hash |-> hash_password(password),
                                     full_name |-> full_name ]) ]

\* ExamDatabase.get_user_by_username: an Optional[Dict], here the set holding
\* the row found, empty for None
get_user_by_username(table, username) ==
  { [ id |-> table[i].id, username |-> table[i].username, full_name |-> table[i].full_name ] :
      i \in { k \in 1..Len(table) : table[k].username = username } }

\* the self-registration form; `shown` is the message box the user gets
handle_registration(table, full_name_entry, username_entry, password_entry, confirm_entry) ==
  LET full_name == strip(full_name_entry)
      username  == strip(username_entry)
      password  == strip(password_entry)
      confirm_password == strip(confirm_entry)
      created   == create_user(table, username, password, full_name)
  IN IF "" \in {full_name, username, password, confirm_password}
       THEN [ users |-> table, username |-> username, shown |-> "fill in all fields" ]
     ELSE IF len(username) < 3
       THEN [ users |-> table, username |-> username, shown |-> "username too short" ]
     ELSE IF len(password) < 6
       THEN [ users |-> table, username |-> username, shown |-> "password too short" ]
     ELSE IF password # confirm_password
       THEN [ users |-> table, username |-> username, shown |-> "passwords do not match" ]
     ELSE IF get_user_by_username(table, username) # {}
       THEN [ users |-> table, username |-> username, shown |-> "username already exists" ]
     ELSE IF created.ok
       THEN [ users |-> created.users, username |-> username, shown |-> "account created" ]
       ELSE [ users |-> created.users, username |-> username, shown |-> "failed to create account" ]

\* the admin's Add Student form
register_new_student(table, username_entry, full_name_entry, password_entry, confirm_entry) ==
  LET username  == strip(username_entry)
      full_name == strip(full_name_entry)
      password  == strip(password_entry)
      confirm   == strip(confirm_entry)
      created   == create_user(table, username, password, full_name)
  IN IF "" \in {username, full_name, password, confirm}
       THEN [ users |-> table, username |-> username, shown |-> "fill in all fields" ]
     ELSE IF password # confirm
       THEN [ users |-> table, username |-> username, shown |-> "passwords do not match" ]
     ELSE IF len(password) < 6
       THEN [ users |-> table, username |-> username, shown |-> "password too short" ]
     ELSE IF UsernameTaken(table, username)
       THEN [ users |-> table, username |-> username, shown |-> "username already exists" ]
     ELSE IF created.ok
       THEN [ users |-> created.users, username |-> username, shown |-> "account created" ]
       ELSE [ users |-> created.users, username |-> username, shown |-> "failed to create account" ]

\* the three create_user calls of ExamDatabase.populate_sample_data
populate_sample_data(table) ==
  LET u1 == create_user(table, "student1", "password123", "John Doe")
      u2 == create_user(u1.users, "student2", "password456", "Jane Smith")
      u3 == create_user(u2.users, "admin", "admin123", "Admin User")
  IN [ users |-> u3.users, ok |-> << u1.ok, u2.ok, u3.ok >> ]

\* the three create_user calls of setup.py's create_database
create_database(table) ==
  LET u1 == create_user(table, "admin", "admin123", "Administrator")
      u2 == create_user(u1.users, "student1", "password123", "Demo Student 1")
      u3 == create_user(u2.users, "student2", "password456", "Demo Student 2")
  IN [ users |-> u3.users, ok |-> << u1.ok, u2.ok, u3.ok >> ]

\* mutant: the UPDATE has no WHERE clause
reset_student_password_AllRows(table, student_id, confirmed, ok) ==
  IF confirmed /\ ok
    THEN [ i \in 1..Len(table) |->
             [table[i] EXCEPT !.password_hash = hash_password("password123")] ]
    ELSE table

\* reset_student_password: UPDATE users SET password_hash = ? WHERE id = ?,
\* after askyesno; `ok` is false when the database raises
reset_student_password(table, student_id, confirmed, ok) ==
  IF confirmed /\ ok
    THEN [ i \in 1..Len(table) |->
             IF table[i].id = student_id
               THEN [table[i] EXCEPT !.password_hash = hash_password("password123")]
               ELSE table[i] ]
    ELSE table

\* ------------------------------------------------------------ the handlers
\* mutant: clear_window forgets the after_cancel and only drops the id
clear_window_NoCancel(s) == [s EXCEPT !.timer_id = "None"]

clear_window(s) ==
  IF s.timer_id # "None"
    THEN [s EXCEPT !.timer_id = "None",
                   !.after_pending = IF s.timer_id = "live" THEN @ - 1 ELSE @]
    ELSE s

\* mutant: the loop sets a tally's total to 1 instead of adding 1
RECURSIVE InitScores_NoAccumulate(_, _, _, _)
InitScores_NoAccumulate(qs, field, i, acc) ==
  IF i > Len(qs) THEN acc
  ELSE LET k  == qs[i][field]
           a1 == IF k \notin DOMAIN acc THEN Put(acc, k, [correct |-> 0, total |-> 0]) ELSE acc
           a2 == [a1 EXCEPT ![k].total = 1]
       IN InitScores_NoAccumulate(qs, field, i + 1, a2)

\* the loop of start_exam that builds category_scores / difficulty_scores
RECURSIVE InitScores(_, _, _, _)
InitScores(qs, field, i, acc) ==
  IF i > Len(qs) THEN acc
  ELSE LET k  == qs[i][field]
           a1 == IF k \notin DOMAIN acc THEN Put(acc, k, [correct |-> 0, total |-> 0]) ELSE acc
           a2 == [a1 EXCEPT ![k].total = @ + 1]
       IN InitScores(qs, field, i + 1, a2)

\* mutant: the selection is stored even when nothing is selected
SaveSelected_SavesEmpty(s) ==
  [s EXCEPT !.user_answers = Put(@, s.current_question_index, s.selected_option)]

\* "Save current answer if selected"
SaveSelected(s) ==
  IF s.selected_option # NoSelection
    THEN [s EXCEPT !.user_answers = Put(@, s.current_question_index, s.selected_option)]
    ELSE s

\* the scoring loop of submit_exam; position i of the code is questions[i + 1] here
RECURSIVE ScoreLoop(_, _, _, _)
ScoreLoop(qs, answers, i, acc) ==
  IF i >= Len(qs) THEN acc
  ELSE LET q == qs[i + 1]
           hit == i \in DOMAIN answers /\ answers[i] = q.correct_option
           a1 == IF hit
                   THEN [ score |-> acc.score + 1,
                          points_earned |-> acc.points_earned + q.points,
                          category_scores |->
                            [acc.category_scores EXCEPT ![q.category].correct = @ + 1],
                          difficulty_scores |->
                            [acc.difficulty_scores EXCEPT ![q.difficulty].correct = @ + 1] ]
                   ELSE acc
       IN ScoreLoop(qs, answers, i + 1, a1)

\* mutant: the remaining time is stored as the time taken
TimeTaken_StoresRemaining(s) == IF s.exam_start_time THEN s.time_remaining ELSE 0

TimeTaken(s) == IF s.exam_start_time THEN ExamDuration - s.time_remaining ELSE 0

\* ExamDatabase.save_exam_result: inserts one row, or returns False when the write fails
save_exam_result(rows, row, ok) == IF ok THEN Append(rows, row) ELSE rows

\* the rows of exam_results with their exam_date: CURRENT_TIMESTAMP at the
\* insert, here the row's insertion number
Dated(rows) ==
  [ i \in 1..Len(rows) |->
      [ user_id |-> rows[i].user_id, score |-> rows[i].score,
        total_questions |-> rows[i].total_questions, time_taken |-> rows[i].time_taken,
        exam_date |-> i ] ]

\* WHERE user_id = ? ORDER BY exam_date DESC
RecentFirst(rows, user_id) ==
  LET Mine(r) == r.user_id = user_id
      mine == SelectSeq(Dated(rows), Mine)
  IN [ i \in 1..Len(mine) |-> mine[Len(mine) + 1 - i] ]

RECURSIVE MaxScore(_, _)
MaxScore(results, i) ==
  IF i = Len(results) THEN results[i].score
  ELSE LET m == MaxScore(results, i + 1)
       IN IF results[i].score >= m THEN results[i].score ELSE m

\* ExamDatabase.get_detailed_analytics: {} is the empty function; the averages
\* are kept as the pair << sum, count >> they are the quotient of
get_detailed_analytics(rows, user_id, limit) ==
  LET results == Limit(RecentFirst(rows, user_id), limit)
      n == Len(results)
  IN IF results = << >> THEN EmptyDict
     ELSE IF \E i \in 1..n : results[i].total_questions = 0
       THEN [ raised |-> "ZeroDivisionError" ]
     ELSE [ total_exams |-> n,
            average_score |-> << SumOver([i \in 1..n |-> results[i].score], 1..n), n >>,
            best_score |-> MaxScore(results, 1),
            recent_performance |->
              [ i \in 1..n |-> [ date |-> results[i].exam_date,
                                 score |-> results[i].score,
                                 total |-> results[i].total_questions,
                                 time_taken |-> results[i].time_taken ] ] ]

show_results_screen(s) == [clear_window(s) EXCEPT !.screen = "results"]

\* mutant: the row stores the number of answered questions as total_questions
FinishSubmit_CountsAnswered(s, origin, ok) ==
  LET r == ScoreLoop(s.questions, s.user_answers, 0,
                     [ score |-> 0, points_earned |-> 0,
                       category_scores |-> s.category_scores,
                       difficulty_scores |-> s.difficulty_scores ])
      row == [ user_id |-> s.current_user,
               score |-> r.score,
               total_questions |-> Cardinality(DOMAIN s.user_answers),
               total_points |-> r.points_earned,
               time_taken |-> TimeTaken(s),
               category_scores |-> r.category_scores,
               difficulty_scores |-> r.difficulty_scores ]
  IN show_results_screen(
       [s EXCEPT !.score = r.score,
                 !.category_scores = r.category_scores,
                 !.difficulty_scores = r.difficulty_scores,
                 !.exam_results = save_exam_result(@, row, ok),
                 !.write_failed = @ \/ ~ok])

\* submit_exam from "Calculate detailed scores" on
FinishSubmit(s, origin, ok) ==
  LET r == ScoreLoop(s.questions, s.user_answers, 0,
                     [ score |-> 0, points_earned |-> 0,
                       category_scores |-> s.category_scores,
                       difficulty_scores |-> s.difficulty_scores ])
      row == [ user_id |-> s.current_user,
               score |-> r.score,
               total_questions |-> Len(s.questions),
               total_points |-> r.points_earned,
               time_taken |-> TimeTaken(s),
               category_scores |-> r.category_scores,
               difficulty_scores |-> r.difficulty_scores ]
  IN show_results_screen(
       [s EXCEPT !.score = r.score,
                 !.category_scores = r.category_scores,
                 !.difficulty_scores = r.difficulty_scores,
                 !.exam_results = save_exam_result(@, row, ok),
                 !.write_failed = @ \/ ~ok])

\* mutant: the scores are calculated before the unanswered-questions check
submit_exam_ScoresBeforeConfirm(s, origin, ok) ==
  LET s1 == SaveSelected([s EXCEPT !.timer_running = FALSE])
      unanswered == Len(s1.questions) - Cardinality(DOMAIN s1.user_answers)
      r == ScoreLoop(s1.questions, s1.user_answers, 0,
                     [ score |-> 0, points_earned |-> 0,
                       category_scores |-> s1.category_scores,
                       difficulty_scores |-> s1.difficulty_scores ])
  IN IF unanswered > 0
       THEN [s1 EXCEPT !.score = r.score,
                       !.category_scores = r.category_scores,
                       !.difficulty_scores = r.difficulty_scores,
                       !.dialogs = Append(@, [origin |-> origin])]
       ELSE FinishSubmit(s1, origin, ok)

\* submit_exam up to the confirmation; origin says who called it
submit_exam(s, origin, ok) ==
  LET s1 == SaveSelected([s EXCEPT !.timer_running = FALSE])
      unanswered == Len(s1.questions) - Cardinality(DOMAIN s1.user_answers)
  IN IF unanswered > 0
       THEN [s1 EXCEPT !.dialogs = Append(@, [origin |-> origin])]
       ELSE FinishSubmit(s1, origin, ok)

auto_submit_exam(s, origin, ok) ==
  submit_exam([s EXCEPT !.timer_running = FALSE, !.timed_out = TRUE], origin, ok)

\* mutant: the expiry test is off by one (time_remaining <= 1)
update_timer_ExpiresEarly(s, origin, ok) ==
  IF s.timer_running /\ s.time_remaining > 0
    THEN [s EXCEPT !.time_remaining = @ - 1,
                   !.timer_id = "live",
                   !.after_pending = @ + 1]
    ELSE IF s.time_remaining <= 1
      THEN auto_submit_exam(s, origin, ok)
      ELSE s

update_timer(s, origin, ok) ==
  IF s.timer_running /\ s.time_remaining > 0
    THEN [s EXCEPT !.time_remaining = @ - 1,
                   !.timer_id = "live",
                   !.after_pending = @ + 1]
    ELSE IF s.time_remaining <= 0
      THEN auto_submit_exam(s, origin, ok)
      ELSE s

\* show_exam_screen after the timer is (re)started: radio variable and buttons
RenderExamBody(s) ==
  [s EXCEPT !.selected_option =
              IF s.current_question_index \in DOMAIN s.user_answers
                THEN s.user_answers[s.current_question_index]
                ELSE NoSelection,
            !.submit_visible =
              \/ s.current_question_index = Len(s.questions) - 1
              \/ Cardinality(DOMAIN s.user_answers) = Len(s.questions)]

\* show_exam_screen.  When the nested update_timer submits, show_results_screen destroys
\* the frames this call has just created and the next widget construction raises
\* TclError, which ends the handler; when it stops at the confirmation, the rest of the
\* rendering runs once the dialog is answered.
show_exam_screen(s, ok) ==
  LET s1 == [clear_window(s) EXCEPT !.screen = "exam"]
      s2 == IF s1.timer_running THEN update_timer(s1, "render", ok) ELSE s1
  IN IF s2.screen = "results" THEN s2
     ELSE IF Len(s2.dialogs) > Len(s1.dialogs) THEN s2
     ELSE RenderExamBody(s2)

show_exam_instructions(s) == [clear_window(s) EXCEPT !.screen = "instructions"]

\* mutant: the "if not self.questions" return is missing
start_exam_NoEmptyCheck(s, qs, ok) ==
  show_exam_screen(
    [s EXCEPT !.questions = qs,
              !.current_question_index = 0,
              !.user_answers = EmptyDict,
              !.score = 0,
              !.total_points = SumOver([i \in 1..Len(qs) |-> qs[i].points], 1..Len(qs)),
              !.category_scores = InitScores(qs, "category", 1, EmptyDict),
              !.difficulty_scores = InitScores(qs, "difficulty", 1, EmptyDict),
              !.exam_start_time = TRUE,
              !.time_remaining = ExamDuration,
              !.timer_running = TRUE,
              !.timed_out = FALSE,
              !.write_failed = FALSE], ok)

start_exam(s, qs, ok) ==
  IF qs = << >>
    THEN [s EXCEPT !.questions = qs]
    ELSE show_exam_screen(
           [s EXCEPT !.questions = qs,
                     !.current_question_index = 0,
                     !.user_answers = EmptyDict,
                     !.score = 0,
                     !.total_points = SumOver([i \in 1..Len(qs) |-> qs[i].points], 1..Len(qs)),
                     !.category_scores = InitScores(qs, "category", 1, EmptyDict),
                     !.difficulty_scores = InitScores(qs, "difficulty", 1, EmptyDict),
                     !.exam_start_time = TRUE,
                     !.time_remaining = ExamDuration,
                     !.timer_running = TRUE,
                     !.timed_out = FALSE,
                     !.write_failed = FALSE], ok)

\* mutant: saving an option that is already recorded removes it
save_current_answer_Toggle(s) ==
  IF /\ s.selected_option # NoSelection
     /\ s.current_question_index \in DOMAIN s.user_answers
     /\ s.user_answers[s.current_question_index] = s.selected_option
    THEN [s EXCEPT !.user_answers =
            [x \in (DOMAIN @) \ {s.current_question_index} |-> @[x]]]
    ELSE SaveSelected(s)

save_current_answer(s) == SaveSelected(s)

\* mutant: the "index < len(questions) - 1" test is missing
next_question_NoBound(s, ok) ==
  LET s1 == SaveSelected(s)
  IN show_exam_screen([s1 EXCEPT !.current_question_index = @ + 1], ok)

next_question(s, ok) ==
  LET s1 == SaveSelected(s)
  IN IF s1.current_question_index < Len(s1.questions) - 1
       THEN show_exam_screen([s1 EXCEPT !.current_question_index = @ + 1], ok)
       ELSE s1

previous_question(s, ok) ==
  LET s1 == SaveSelected(s)
  IN IF s1.current_question_index > 0
       THEN show_exam_screen([s1 EXCEPT !.current_question_index = @ - 1], ok)
       ELSE s1

jump_to_question(s, index, ok) ==
  show_exam_screen([SaveSelected(s) EXCEPT !.current_question_index = index], ok)

\* mutant: logout leaves the timer flag set and relies on clear_window alone
logout_KeepsTimerRunning(s) ==
  [clear_window(s) EXCEPT !.current_user = NoUser,
                          !.questions = << >>,
                          !.user_answers = EmptyDict,
                          !.score = 0,
                          !.current_question_index = 0,
                          !.category_scores = EmptyDict,
                          !.difficulty_scores = EmptyDict,
                          !.timed_out = FALSE,
                          !.write_failed = FALSE,
                          !.screen = "login"]

logout(s) ==
  LET s1 == [s EXCEPT !.timer_running = FALSE]
      s2 == IF s1.timer_id # "None"
              THEN [s1 EXCEPT !.timer_id = "None",
                              !.after_pending = IF s1.timer_id = "live" THEN @ - 1 ELSE @]
              ELSE s1
  IN [clear_window(s2) EXCEPT !.current_user = NoUser,
                              !.questions = << >>,
                              !.user_answers = EmptyDict,
                              !.score = 0,
                              !.current_question_index = 0,
                              !.category_scores = EmptyDict,
                              !.difficulty_scores = EmptyDict,
                              !.timed_out = FALSE,
                              !.write_failed = FALSE,
                              !.screen = "login"]

\* ---------------------------------------------------------------- actions
Idle == dialogs = << >>

Init ==
  /\ screen = "login"
  /\ current_user = NoUser
  /\ questions = << >>
  /\ current_question_index = 0
  /\ user_answers = EmptyDict
  /\ selected_option = NoSelection
  /\ score = 0
  /\ total_points = 0
  /\ category_scores = EmptyDict
  /\ difficulty_scores = EmptyDict
  /\ exam_start_time = FALSE
  /\ time_remaining = ExamDuration
  /\ timer_running = FALSE
  /\ timer_id = "None"
  /\ after_pending = 0
  /\ submit_visible = FALSE
  /\ dialogs = << >>
  /\ exam_results = << >>
  /\ timed_out = FALSE
  /\ write_failed = FALSE
  /\ call = NoCall
  /\ users = << >>
  /\ config = default_config
  /\ config_file = Json(default_config)
  /\ navigation_stack = << >>
  /\ current_screen = None

Login ==
  /\ Idle /\ screen = "login"
  /\ \E u \in Users :
       Become(show_exam_instructions([St EXCEPT !.current_user = u]))

Logout ==
  /\ Idle /\ screen \in {"instructions", "results"}
  /\ Become(logout(St))

TakeAnotherExam ==
  /\ Idle /\ screen = "results"
  /\ Become(show_exam_instructions(St))

StartExam ==
  /\ Idle /\ screen = "instructions"
  /\ Len(exam_results) < MaxResults
  /\ \E qs \in QuestionLists, ok \in BOOLEAN :
       Become(start_exam(St, qs, ok))

SelectOption ==
  /\ Idle /\ screen = "exam"
  /\ \E o \in Choices :
       Become([St EXCEPT !.selected_option = o])

SaveAnswer ==
  /\ Idle /\ screen = "exam"
  /\ Become(save_current_answer(St))

Next_ ==
  /\ Idle /\ screen = "exam" /\ ~submit_visible
  /\ \E ok \in BOOLEAN : Become(next_question(St, ok))

Previous ==
  /\ Idle /\ screen = "exam" /\ current_question_index > 0
  /\ \E ok \in BOOLEAN : Become(previous_question(St, ok))

Jump ==
  /\ Idle /\ screen = "exam"
  /\ \E index \in 0..(Len(questions) - 1), ok \in BOOLEAN :
       Become(jump_to_question(St, index, ok))

SubmitClick ==
  /\ Idle /\ screen = "exam" /\ submit_visible
  /\ \E ok \in BOOLEAN : Become(submit_exam(St, "button", ok))

\* the callback scheduled by root.after(1000, self.update_timer) fires
Tick ==
  /\ after_pending > 0 /\ timer_id = "live"
  /\ \E ok \in BOOLEAN :
       Become(update_timer([St EXCEPT !.after_pending = @ - 1, !.timer_id = "stale"],
                           "timer", ok))

\* askyesno answered Yes: submit_exam goes on to score and save
ConfirmYes ==
  /\ dialogs # << >>
  /\ \E ok \in BOOLEAN :
       LET top == dialogs[Len(dialogs)]
           s0  == [St EXCEPT !.dialogs = SubSeq(@, 1, Len(@) - 1)]
       IN Become(FinishSubmit(s0, top.origin, ok))

\* askyesno answered No: submit_exam returns to its caller
ConfirmNo ==
  /\ dialogs # << >>
  /\ LET top == dialogs[Len(dialogs)]
         s0  == [St EXCEPT !.dialogs = SubSeq(@, 1, Len(@) - 1)]
     IN Become(IF top.origin = "render" THEN RenderExamBody(s0) ELSE s0)

Next ==
  \/ Login
  \/ Logout
  \/ TakeAnotherExam
  \/ StartExam
  \/ SelectOption
  \/ SaveAnswer
  \/ Next_
  \/ Previous
  \/ Jump
  \/ SubmitClick
  \/ Tick
  \/ ConfirmYes
  \/ ConfirmNo

Spec == Init /\ [][Next]_vars

\* ------------------------------------------------- question retrieval alone
\* get_questions called with any arguments on any questions table
GetQuestions ==
  \E table \in SUBSET StoredQuestions, limit \in 0..MaxLimit,
     category \in CategoryArgs, difficulty \in DifficultyArgs, randomize \in BOOLEAN :
    \E result \in get_questions(table, limit, category, difficulty, randomize) :
      /\ call' = [ fn |-> "get_questions", table |-> table, limit |-> limit,
                   category |-> category, difficulty |-> difficulty,
                   randomize |-> randomize, result |-> result ]
      /\ UNCHANGED << session_vars, nav_vars, users, config, config_file >>

NextQuestions == GetQuestions

SpecQuestions == Init /\ [][NextQuestions]_vars

\* ------------------------------------------------------- claim vocabulary
InProgress == screen = "exam"
Submitted == screen = "results"
InSession == screen \in {"exam", "results"}

Positions(qs) == 0..(Len(qs) - 1)
Answered == DOMAIN user_answers

\* positions whose recorded answer is the question's correct option
CorrectPositions(qs, answers) ==
  { i \in Positions(qs) : i \in DOMAIN answers /\ answers[i] = qs[i + 1].correct_option }

WithField(qs, P, field, k) == { i \in P : qs[i + 1][field] = k }

PointsOf(qs, P) == SumOver([i \in P |-> qs[i + 1].points], P)

SumTotals(d) == SumOver([k \in DOMAIN d |-> d[k].total], DOMAIN d)

RowAdded == Len(exam_results') > Len(exam_results)
NewRow == exam_results'[Len(exam_results')]

TopDialog == dialogs[Len(dialogs)]

\* submit_exam, called by the Submit button, stopped at the askyesno
StoppedAtConfirmation ==
  /\ Len(dialogs') = Len(dialogs) + 1
  /\ dialogs'[Len(dialogs')].origin = "button"

\* the askyesno of a button submission was answered No during the exam
Declined ==
  /\ dialogs # << >>
  /\ TopDialog.origin = "button"
  /\ dialogs' = SubSeq(dialogs, 1, Len(dialogs) - 1)
  /\ screen = "exam" /\ screen' = "exam"

\* ------------------------------------------------------------------ claims

\* C1: an attempt persists exactly one exam_results row, at the step that completes it
\* (exam screen -> results screen, the store accepting the write), and no row at any
\* other time, so never two rows for one attempt.
C1_ExactlyOneResultPerAttempt ==
  [][ /\ (screen = "exam" /\ screen' = "results" /\ ~write_failed')
           => Len(exam_results') = Len(exam_results) + 1
      /\ Len(exam_results') <= Len(exam_results) + 1
      /\ (screen # "exam" /\ ~write_failed) => exam_results' = exam_results ]_vars

\* C2: in every state of a session (the store accepting its writes) each category and
\* difficulty tally has correct <= total, and the score is at most the number of
\* questions.
C2_CorrectAtMostTotal ==
  (InSession /\ ~write_failed) =>
    /\ \A c \in DOMAIN category_scores :
         category_scores[c].correct <= category_scores[c].total
    /\ \A d \in DOMAIN difficulty_scores :
         difficulty_scores[d].correct <= difficulty_scores[d].total
    /\ score <= Len(questions)

\* C3: from Start to the end of the session the 'total' of each category (difficulty)
\* is the number of the session's questions with that category (difficulty), so the
\* totals sum to the number of questions and no later handler changes them.
C3_TotalsMatchQuestions ==
  InSession =>
    /\ DOMAIN category_scores = { questions[i].category : i \in 1..Len(questions) }
    /\ DOMAIN difficulty_scores = { questions[i].difficulty : i \in 1..Len(questions) }
    /\ \A c \in DOMAIN category_scores :
         category_scores[c].total =
           Cardinality(WithField(questions, Positions(questions), "category", c))
    /\ \A d \in DOMAIN difficulty_scores :
         difficulty_scores[d].total =
           Cardinality(WithField(questions, Positions(questions), "difficulty", d))
    /\ SumTotals(category_scores) = Len(questions)
    /\ SumTotals(difficulty_scores) = Len(questions)

\* C3 witness: a submitted two-question session with an unanswered question.
C3_Witness ==
  /\ Submitted
  /\ Len(questions) = 2
  /\ Answered # Positions(questions)
  /\ exam_results # << >>
  /\ SumTotals(category_scores) = 2

\* C4: once the countdown has expired the session is submitted, without the
\* unanswered-questions confirmation: it is never on the exam screen after a timeout.
C4_TimeoutSubmitsWithoutConfirmation ==
  ~(timed_out /\ screen = "exam")

\* C5: when a button submission is declined at the confirmation, the session goes on
\* with the countdown: the timer is running and, with time left, a tick is scheduled.
C5_DeclinedSubmitKeepsCountdown ==
  [][ Declined =>
        /\ timer_running'
        /\ time_remaining' > 0 => after_pending' > 0 ]_vars

\* C6 as claimed: a button submission that stops at the confirmation and is declined
\* persists nothing and leaves score, 'correct' tallies, recorded answers and position
\* unchanged.
C6_DeclinedSubmitChangesNothing ==
  [][ (StoppedAtConfirmation \/ Declined) =>
        UNCHANGED << exam_results, score, category_scores, difficulty_scores,
                     user_answers, current_question_index >> ]_vars

\* C6 amended: such a submission persists nothing and leaves score, 'correct' tallies
\* and position unchanged; of the recorded answers it changes only the entry of the
\* current position, to the option selected when Submit was pressed (if any).
C6_DeclinedSubmitRecordsOnlySelection ==
  [][ /\ StoppedAtConfirmation =>
           /\ UNCHANGED << exam_results, score, category_scores, difficulty_scores,
                           current_question_index >>
           /\ \A p \in DOMAIN user_answers :
                p # current_question_index =>
                  p \in DOMAIN user_answers' /\ user_answers'[p] = user_answers[p]
           /\ DOMAIN user_answers' \subseteq DOMAIN user_answers \cup {current_question_index}
           /\ selected_option = NoSelection => user_answers' = user_answers
           /\ selected_option # NoSelection =>
                /\ current_question_index \in DOMAIN user_answers'
                /\ user_answers'[current_question_index] = selected_option
      /\ Declined =>
           UNCHANGED << exam_results, score, category_scores, difficulty_scores,
                        user_answers, current_question_index >> ]_vars

\* C6 witness: on the exam screen after a declined button submission (the only way the
\* timer is stopped there before a timeout), the selection recorded, nothing persisted.
C6_Witness ==
  /\ InProgress /\ dialogs = << >>
  /\ ~timer_running /\ ~timed_out
  /\ Answered # Positions(questions)
  /\ current_question_index \in Answered
  /\ user_answers[current_question_index] = selected_option
  /\ exam_results = << >>
  /\ score = 0

\* C7: a submitted session is terminal: while the results screen stays (its row
\* written), recorded answers, score, tallies and the persisted rows do not change.
C7_SubmittedIsTerminal ==
  [][ (screen = "results" /\ screen' = "results" /\ ~write_failed) =>
        UNCHANGED << user_answers, score, category_scores, difficulty_scores,
                     exam_results >> ]_vars

\* C8: a persisted row's score is the number of correctly answered positions, its points
\* the sum of their point values, and each category/difficulty 'correct' the number of
\* them with that category/difficulty; unanswered positions add nothing
\* (checked of every row of an attempt in which no write failed).
C8_RowMatchesAnswers ==
  [][ (RowAdded /\ ~write_failed') =>
        LET hits == CorrectPositions(questions, user_answers')
        IN /\ NewRow.score = Cardinality(hits)
           /\ NewRow.total_questions = Len(questions)
           /\ NewRow.total_points = PointsOf(questions, hits)
           /\ \A c \in DOMAIN NewRow.category_scores :
                NewRow.category_scores[c].correct =
                  Cardinality(WithField(questions, hits, "category", c))
           /\ \A d \in DOMAIN NewRow.difficulty_scores :
                NewRow.difficulty_scores[d].correct =
                  Cardinality(WithField(questions, hits, "difficulty", d)) ]_vars

\* C9: a row persisted after the countdown expired stores the configured duration as
\* its elapsed time.
C9_TimeoutElapsedIsDuration ==
  [][ (RowAdded /\ timed_out') => NewRow.time_taken = ExamDuration ]_vars

\* C9 witness: a timed-out session, submitted with a question unanswered, row stored.
C9_Witness ==
  /\ Submitted /\ timed_out /\ dialogs = << >>
  /\ Answered # Positions(questions)
  /\ Len(exam_results) = 1
  /\ exam_results[1].time_taken = ExamDuration

\* C10: on the exam screen remaining time changes only by one unit down, and a step
\* that navigates or selects/records an answer leaves it unchanged.
C10_OnlyTickDecrements ==
  [][ screen = "exam" =>
        /\ time_remaining' \in {time_remaining, time_remaining - 1}
        /\ ( \/ current_question_index' # current_question_index
             \/ user_answers' # user_answers
             \/ selected_option' # selected_option )
             => time_remaining' = time_remaining ]_vars

\* C11: recording the option that is already recorded for the current position
\* leaves the recorded answers as they were after the first recording, and
\* recording changes neither the score nor any tally.
C11_SaveAnswerIdempotent ==
  (InProgress /\ Idle) =>
    LET once  == save_current_answer(St)
        twice == save_current_answer(once)
    IN /\ twice.user_answers = once.user_answers
       /\ twice = once
       /\ once.score = score
       /\ once.total_points = total_points
       /\ once.category_scores = category_scores
       /\ once.difficulty_scores = difficulty_scores

\* an option was recorded for the current position and is still selected
C11_Witness ==
  /\ InProgress /\ Idle
  /\ selected_option # NoSelection
  /\ current_question_index \in Answered
  /\ user_answers[current_question_index] = selected_option

C13_StartResetsEverything ==
  [][ (screen = "instructions" /\ screen' = "exam")
        => /\ current_question_index' = 0
           /\ user_answers' = EmptyDict
           /\ score' = 0
           /\ \A k \in DOMAIN category_scores' : category_scores'[k].correct = 0
           /\ \A k \in DOMAIN difficulty_scores' : difficulty_scores'[k].correct = 0
           /\ timer_running'
           /\ time_remaining' = ExamDuration ]_vars

\* C14 as stated: the position is always valid, and next_question on the last
\* question and previous_question on the first change neither the position
\* nor the recorded answers nor the remaining time.
C14_OutOfRangeNavigationChangesNothing ==
  InProgress =>
    /\ current_question_index \in Positions(questions)
    /\ Idle =>
         /\ current_question_index = Len(questions) - 1 =>
              \A ok \in BOOLEAN :
                LET t == next_question(St, ok)
                IN /\ t.current_question_index = current_question_index
                   /\ t.user_answers = user_answers
                   /\ t.time_remaining = time_remaining
         /\ current_question_index = 0 =>
              \A ok \in BOOLEAN :
                LET t == previous_question(St, ok)
                IN /\ t.current_question_index = current_question_index
                   /\ t.user_answers = user_answers
                   /\ t.time_remaining = time_remaining

\* C14 amended: the position is always valid and the screen offers Next only
\* before the last question; next_question on the last question and
\* previous_question on the first do what save_current_answer does and no
\* more: position and remaining time stay, the selected option is recorded.
C14_OutOfRangeNavigationOnlySaves ==
  InProgress =>
    /\ current_question_index \in Positions(questions)
    /\ Idle =>
         /\ ~submit_visible => current_question_index < Len(questions) - 1
         /\ current_question_index = Len(questions) - 1 =>
              \A ok \in BOOLEAN :
                LET t == next_question(St, ok)
                IN /\ t.current_question_index = current_question_index
                   /\ t.time_remaining = time_remaining
                   /\ t = SaveSelected(St)
         /\ current_question_index = 0 =>
              \A ok \in BOOLEAN :
                LET t == previous_question(St, ok)
                IN /\ t.current_question_index = current_question_index
                   /\ t.time_remaining = time_remaining
                   /\ t = SaveSelected(St)

\* the last question of a two-question exam is shown with an option selected
\* that is not recorded yet
C14_Witness ==
  /\ InProgress /\ Idle
  /\ Len(questions) > 1
  /\ current_question_index = Len(questions) - 1
  /\ selected_option # NoSelection
  /\ current_question_index \notin Answered

\* C15: logout applied to an in-progress session writes no row, cancels the
\* scheduled timer callback and clears the timer flag, so that no tick and no
\* timeout submission can follow, and leaves no session behind.
C15_LogoutDiscardsSession ==
  (InProgress /\ Idle) =>
    LET t == logout(St)
    IN /\ t.exam_results = exam_results
       /\ ~t.timer_running
       /\ t.after_pending = 0 /\ t.timer_id = "None"
       /\ t.dialogs = << >>
       /\ t.screen = "login"
       /\ t.current_user = NoUser
       /\ t.questions = << >> /\ t.user_answers = EmptyDict /\ t.score = 0

\* an in-progress session with recorded answers whose timer callback is scheduled
C15_Witness ==
  /\ InProgress /\ Idle
  /\ timer_running /\ after_pending > 0 /\ timer_id = "live"
  /\ user_answers # EmptyDict

\* C16: an attempt whose result row could not be written is never shown as
\* completed on the results screen.
C16_FailedWriteIsNotShownAsCompleted ==
  ~(write_failed /\ screen = "results")

\* ------------------------------------------------------------ navigation
\* The admin's screens, named by their methods.  A handler here is a function
\* on the record of the attributes it reads or writes.
AdminScreens == {"show_all_results", "show_student_analytics", "manage_students",
                 "show_register_student", "export_system_data"}

Nv == [ navigation_stack |-> navigation_stack, current_screen |-> current_screen,
        screen |-> screen, current_user |-> current_user ]

\* current_user['username'] == 'admin'
IsAdmin(table, user) ==
  \E i \in 1..Len(table) : table[i].id = user /\ table[i].username = "admin"

push_navigation(n, screen_name) ==
  [ n EXCEPT !.navigation_stack = IF Truthy(n.current_screen)
                                    THEN Append(@, n.current_screen) ELSE @,
             !.current_screen = screen_name ]

\* sets current_screen and redraws; the stack is left as it is
show_admin_dashboard(n) ==
  [ n EXCEPT !.current_screen = "show_admin_dashboard", !.screen = "show_admin_dashboard" ]

\* push_navigation, clear_window and the screen's widgets with the Back header
show_system_settings(n) ==
  [ push_navigation(n, "show_system_settings") EXCEPT !.screen = "show_system_settings" ]

\* the other screens that begin with push_navigation and clear_window
show_screen(n, screen_name) ==
  [ push_navigation(n, screen_name) EXCEPT !.screen = screen_name ]

\* push_navigation and an information box; the window is not redrawn
manage_questions(n) ==
  push_navigation(n, "manage_questions")

\* getattr(self, screen_name)()
screen_function(n, screen_name) ==
  CASE screen_name = "show_admin_dashboard" -> show_admin_dashboard(n)
    [] screen_name = "show_system_settings" -> show_system_settings(n)
    [] screen_name = "manage_questions"     -> manage_questions(n)
    [] OTHER                                -> show_screen(n, screen_name)

pop_navigation(n, table) ==
  IF n.navigation_stack # << >>
    THEN LET screen_name == n.navigation_stack[Len(n.navigation_stack)]
             popped == [ n EXCEPT !.navigation_stack = SubSeq(@, 1, Len(@) - 1),
                                  !.current_screen = screen_name ]
         IN screen_function(popped, screen_name)
  ELSE IF n.current_user # NoUser /\ IsAdmin(table, n.current_user)
    THEN show_admin_dashboard(n)
    ELSE [ n EXCEPT !.screen = "login" ]

BecomeNv(n) ==
  /\ navigation_stack' = n.navigation_stack
  /\ current_screen' = n.current_screen
  /\ screen' = n.screen
  /\ current_user' = n.current_user
  /\ UNCHANGED exam_vars

\* ------------------------------------------------------ registration alone
\* "Create Account" on the login screen's registration form; a success ends in
\* show_login_screen, which at the login screen changes no session attribute
HandleRegistration ==
  /\ Len(users) < MaxUsers
  /\ \E f \in FullNameEntries, u \in UsernameEntries, p \in PasswordEntries, c \in PasswordEntries :
       LET r == handle_registration(users, f, u, p, c)
       IN /\ users' = r.users
          /\ call' = [ fn |-> "handle_registration", username |-> r.username, shown |-> r.shown ]
  /\ UNCHANGED << session_vars, nav_vars, config, config_file >>

\* "Register Student" on the admin's Add Student screen; a success ends in
\* pop_navigation
RegisterNewStudent ==
  /\ Len(users) < MaxUsers
  /\ \E u \in UsernameEntries, f \in FullNameEntries, p \in PasswordEntries, c \in PasswordEntries :
       LET r == register_new_student(users, u, f, p, c)
       IN /\ users' = r.users
          /\ call' = [ fn |-> "register_new_student", username |-> r.username, shown |-> r.shown ]
          /\ IF r.shown = "account created"
               THEN BecomeNv(pop_navigation(Nv, r.users))
               ELSE UNCHANGED << session_vars, nav_vars >>
  /\ UNCHANGED << config, config_file >>

\* run() seeds the sample data when the questions table is empty
PopulateSampleData ==
  /\ Len(users) + 3 <= MaxUsers
  /\ LET r == populate_sample_data(users)
     IN /\ users' = r.users
        /\ call' = [ fn |-> "populate_sample_data", ok |-> r.ok ]
  /\ UNCHANGED << session_vars, nav_vars, config, config_file >>

\* setup.py is run (again)
CreateDatabase ==
  /\ Len(users) + 3 <= MaxUsers
  /\ LET r == create_database(users)
     IN /\ users' = r.users
        /\ call' = [ fn |-> "create_database", ok |-> r.ok ]
  /\ UNCHANGED << session_vars, nav_vars, config, config_file >>

\* "Reset Password" next to a student in the admin's student list, which
\* shows the users other than admin
ResetStudentPassword ==
  /\ \E i \in 1..Len(users), confirmed \in BOOLEAN, ok \in BOOLEAN :
       /\ users[i].username # "admin"
       /\ users' = reset_student_password(users, users[i].id, confirmed, ok)
       /\ call' = [ fn |-> "reset_student_password", student_id |-> users[i].id,
                    confirmed |-> confirmed, ok |-> ok ]
  /\ UNCHANGED << session_vars, nav_vars, config, config_file >>

NextUsers ==
  \/ HandleRegistration
  \/ RegisterNewStudent
  \/ PopulateSampleData
  \/ CreateDatabase
  \/ ResetStudentPassword

SpecUsers == Init /\ [][NextUsers]_vars

\* ------------------------------------------------------ the admin's screens
\* handle_login with the admin's credentials
AdminLogin ==
  /\ screen = "login"
  /\ \E i \in 1..Len(users) :
       /\ users[i].username = "admin"
       /\ BecomeNv(show_admin_dashboard([Nv EXCEPT !.current_user = users[i].id]))
  /\ UNCHANGED << call, users, config, config_file >>

\* the dashboard buttons whose screens replace the window
ShowScreen ==
  /\ screen = "show_admin_dashboard"
  /\ Len(navigation_stack) < MaxStack
  /\ \E screen_name \in AdminScreens : BecomeNv(show_screen(Nv, screen_name))
  /\ UNCHANGED << call, users, config, config_file >>

ShowSystemSettings ==
  /\ screen = "show_admin_dashboard"
  /\ Len(navigation_stack) < MaxStack
  /\ BecomeNv(show_system_settings(Nv))
  /\ UNCHANGED << call, users, config, config_file >>

ManageQuestions ==
  /\ screen = "show_admin_dashboard"
  /\ Len(navigation_stack) < MaxStack
  /\ BecomeNv(manage_questions(Nv))
  /\ UNCHANGED << call, users, config, config_file >>

\* the Back button of create_navigation_header, and Cancel on the Add Student form
Back ==
  /\ screen \in AdminScreens \cup {"show_system_settings"}
  /\ BecomeNv(pop_navigation(Nv, users))
  /\ UNCHANGED << call, users, config, config_file >>

\* "Register Student" pressed on the Add Student form
RegisterFromForm ==
  /\ screen = "show_register_student"
  /\ RegisterNewStudent

\* Logout on the dashboard, answered yes
HandleLogout ==
  /\ screen = "show_admin_dashboard"
  /\ BecomeNv([Nv EXCEPT !.current_user = NoUser, !.navigation_stack = << >>,
                         !.screen = "login"])
  /\ UNCHANGED << call, users, config, config_file >>

NextNavigation ==
  \/ CreateDatabase
  \/ AdminLogin
  \/ ShowScreen
  \/ ShowSystemSettings
  \/ ManageQuestions
  \/ Back
  \/ RegisterFromForm
  \/ HandleLogout

SpecNavigation == Init /\ [][NextNavigation]_vars

\* -------------------------------------------------------- analytics alone
\* A finished attempt of some user is written to exam_results.  Of the rows
\* an attempt on two questions can write, three are drawn: a result of user 1
\* with score 1, one of user 1 with score 2 and one of user 2 with score 2,
\* the last two at most once per table.
SaveExamResult ==
  /\ Len(exam_results) < MaxRows
  /\ \E u \in ResultUsers, sc \in {1, 2} :
       /\ (u = 2 \/ sc = 2) =>
            \A i \in 1..Len(exam_results) :
              exam_results[i].user_id # u \/ exam_results[i].score # sc
       /\ u = 2 => sc = 2
       /\ Become([St EXCEPT !.exam_results =
                    save_exam_result(@, [ user_id |-> u, score |-> sc, total_questions |-> 2,
                                          total_points |-> sc, time_taken |-> 1,
                                          category_scores |-> EmptyDict,
                                          difficulty_scores |-> EmptyDict ], TRUE)])

\* show_performance_analytics asks for the analytics of the logged-in user
GetDetailedAnalytics ==
  /\ \E u \in ResultUsers :
       call' = [ fn |-> "get_detailed_analytics", table |-> exam_results, user_id |-> u,
                 result |-> get_detailed_analytics(exam_results, u, AnalyticsLimit) ]
  /\ UNCHANGED << session_vars, nav_vars, users, config, config_file >>

NextAnalytics ==
  \/ SaveExamResult
  \/ GetDetailedAnalytics

SpecAnalytics == Init /\ [][NextAnalytics]_vars

\* ---------------------------------------------------- configuration alone
\* ExamConfig() is constructed while config.json is in some state
LoadConfig ==
  /\ \E file \in ConfigFiles :
       LET r == load_config(file)
       IN /\ config' = r.config
          /\ config_file' = r.config_file
          /\ call' = [ fn |-> "load_config" ]
  /\ UNCHANGED << session_vars, nav_vars, users >>

\* self.config.get(key) or self.config.get(key, default)
ConfigGet ==
  /\ \E key \in Paths, default \in {NoneValue, Scalar(0)} :
       call' = [ fn |-> "get", key |-> key, default |-> default,
                 result |-> get(config, key, default) ]
  /\ UNCHANGED << session_vars, nav_vars, users, config, config_file >>

\* self.config.set(key, value)
ConfigSet ==
  /\ \E key \in Paths, value \in SetValues :
       LET r == set(config, config_file, key, value)
       IN /\ config' = r.config
          /\ config_file' = r.config_file
          /\ call' = [ fn |-> "set", key |-> key, value |-> value, raised |-> r.raised ]
  /\ UNCHANGED << session_vars, nav_vars, users >>

NextConfig ==
  \/ LoadConfig
  \/ ConfigGet
  \/ ConfigSet

SpecConfig == Init /\ [][NextConfig]_vars

\* the stored questions that satisfy the filters of the last get_questions call
MatchingCall ==
  { q \in call.table :
      /\ call.category # None => q.category = call.category
      /\ call.difficulty # None => q.difficulty = call.difficulty }

\* C17: get_questions returns exactly min(limit, number of matching stored
\* questions) questions, each a stored question matching the filters, none twice.
C17_GetQuestionsReturnsMinOfLimitAndMatching ==
  call.fn = "get_questions" =>
    LET r == call.result
    IN /\ Len(r) = Min(call.limit, Cardinality(MatchingCall))
       /\ \A i \in 1..Len(r) : r[i] \in MatchingCall
       /\ \A i, j \in 1..Len(r) : i # j => r[i].id # r[j].id

\* two stored Mathematics questions, a limit above two: exactly the two come back
C17_Witness ==
  /\ call.fn = "get_questions"
  /\ call.category = "Mathematics" /\ call.difficulty = None
  /\ Cardinality(call.table) = 3
  /\ Cardinality(MatchingCall) = 2
  /\ call.limit = 3
  /\ Len(call.result) = 2

\* the step is a registration through one of the two forms
Registration == call'.fn \in {"handle_registration", "register_new_student"}

\* C18: no two user rows share a username, whatever was registered or seeded,
\* and a registration of a username that is already taken reports a failure
\* and leaves the users table as it was.
C18_UsernamesStayUnique ==
  /\ [](\A i, j \in 1..Len(users) : i # j => users[i].username # users[j].username)
  /\ [][ (Registration /\ UsernameTaken(users, call'.username))
          => (users' = users /\ call'.shown # "account created") ]_vars

\* a taken username was entered in a registration form and refused, the table
\* holding seeded and registered rows
C18_Witness ==
  /\ call.fn \in {"handle_registration", "register_new_student"}
  /\ call.shown = "username already exists"
  /\ UsernameTaken(users, call.username)
  /\ Len(users) >= 4

\* the rows of the user the last analytics call asked about, oldest first
RowsOfCall ==
  LET Mine(r) == r.user_id = call.user_id
  IN SelectSeq(call.table, Mine)

\* C19: the analytics summary of a user covers all of that user's rows and no
\* others: total_exams is their number, best_score their highest score, the
\* history lists them most recent first; without rows the summary is empty.
C19_AnalyticsCoverAllRowsOfUser ==
  call.fn = "get_detailed_analytics" =>
    LET a == call.result
    IN IF RowsOfCall = << >> THEN DOMAIN a = {}
       ELSE /\ "total_exams" \in DOMAIN a
            /\ a.total_exams = Len(RowsOfCall)
            /\ \A i \in 1..Len(RowsOfCall) : a.best_score >= RowsOfCall[i].score
            /\ \E i \in 1..Len(RowsOfCall) : a.best_score = RowsOfCall[i].score
            /\ \A i, j \in 1..Len(a.recent_performance) :
                 i < j => a.recent_performance[i].date > a.recent_performance[j].date
            /\ \A i \in 1..Len(a.recent_performance) :
                 call.table[a.recent_performance[i].date].user_id = call.user_id

\* the dotted paths of default_config
DefaultPaths ==
  { "exam_duration", "questions_per_exam", "ui_settings", "ui_settings.window_width",
    "ui_settings.window_height" }

\* the JSON object `doc` has a value at the dotted path `key`
RECURSIVE Defined(_, _, _)
Defined(doc, keys, i) ==
  \/ i > Len(keys)
  \/ /\ IsDict(doc)
     /\ keys[i] \in DOMAIN doc.dict
     /\ Defined(doc.dict[keys[i]], keys, i + 1)

RECURSIVE ValueAt(_, _, _)
ValueAt(doc, keys, i) ==
  IF i > Len(keys) THEN doc ELSE ValueAt(doc.dict[keys[i]], keys, i + 1)

\* C20: once the configuration is loaded from config.json, get of a dotted
\* path of the defaults returns the file's value where the file defines that
\* path, and the default's value where it does not.
C20_LoadedPathsResolveToFileOrDefault ==
  (call.fn = "get" /\ call.key \in DefaultPaths) =>
    call.result =
      IF IsJson(config_file) /\ Defined(Dict(config_file.json), split(call.key), 1)
        THEN ValueAt(Dict(config_file.json), split(call.key), 1)
        ELSE ValueAt(Dict(default_config), split(call.key), 1)

\* one of two dotted paths leads through the other
IsPrefix(a, b) == Len(a) <= Len(b) /\ SubSeq(b, 1, Len(a)) = a
Related(p, q) == IsPrefix(split(p), split(q)) \/ IsPrefix(split(q), split(p))

\* the dotted path has a value in the configuration
Resolves(cfg, key) == Defined(Dict(cfg), split(key), 1)

\* a key before the last one of the path holds a value that is not an object
RECURSIVE ThroughScalar(_, _, _)
ThroughScalar(value, keys, i) ==
  /\ i < Len(keys)
  /\ IsDict(value)
  /\ keys[i] \in DOMAIN value.dict
  /\ \/ ~IsDict(value.dict[keys[i]])
     \/ ThroughScalar(value.dict[keys[i]], keys, i + 1)

\* C21 as stated: after set(path, v), get(path) is v and every other path
\* resolves as before; get of a path without a value returns the default
\* given and leaves the configuration alone.
C21_SetThenGetAndNoOtherPath ==
  [][ /\ call'.fn = "set" =>
           /\ get(config', call'.key, NoneValue) = call'.value
           /\ \A q \in Paths \ {call'.key} :
                get(config', q, NoneValue) = get(config, q, NoneValue)
      /\ call'.fn = "get" =>
           /\ config' = config /\ config_file' = config_file
           /\ ~Resolves(config, call'.key) => call'.result = call'.default ]_vars

\* C21 amended: set(path, v) raises TypeError and changes nothing when the
\* path leads through a value that is not an object; otherwise get(path) is v
\* afterwards, the file holds the new configuration, and every path that
\* neither leads through `path` nor lies on it resolves as before.  get of a
\* path without a value returns the default given and changes nothing.
C21_SetThenGetAndNoUnrelatedPath ==
  [][ /\ call'.fn = "set" =>
           IF ThroughScalar(Dict(config), split(call'.key), 1)
             THEN call'.raised /\ config' = config /\ config_file' = config_file
             ELSE /\ ~call'.raised
                  /\ get(config', call'.key, NoneValue) = call'.value
                  /\ config_file' = Json(config')
                  /\ \A q \in Paths :
                       ~Related(q, call'.key) =>
                         get(config', q, NoneValue) = get(config, q, NoneValue)
      /\ call'.fn = "get" =>
           /\ config' = config /\ config_file' = config_file
           /\ ~Resolves(config, call'.key) => call'.result = call'.default ]_vars

\* a nested path whose first key was absent has been set and resolves, and the
\* paths of ui_settings still resolve
C21_Witness ==
  /\ call.fn = "set" /\ call.key = "colors.primary" /\ ~call.raised
  /\ get(config, "colors.primary", NoneValue) = call.value
  /\ Resolves(config, "ui_settings.window_width")

C23_AnswerRecordedOnlyForShownQuestion ==
  [][ \A p \in DOMAIN user_answers' :
        \/ p \in DOMAIN user_answers /\ user_answers'[p] = user_answers[p]
        \/ /\ screen = "exam"
           /\ p = current_question_index
           /\ user_answers'[p] = selected_option ]_vars

\* C24: at most one update_timer callback is pending at any moment, and a
\* pending callback is the one timer_id names.
C24_AtMostOneCallbackPending ==
  /\ after_pending <= 1
  /\ after_pending = 1 <=> timer_id = "live"

\* the exam screen was rendered again after a navigation and one callback is pending
C24_Witness ==
  /\ InProgress /\ Idle
  /\ current_question_index > 0
  /\ timer_running /\ after_pending = 1

\* C25: the remaining time always lies between 0 and the configured
\* duration, and every row written stores as time_taken the configured
\* duration minus the time remaining at the submission, a value between 0 and
\* the duration.
C25_TimeWithinDuration ==
  /\ [](time_remaining \in 0..ExamDuration)
  /\ [][ RowAdded =>
           /\ NewRow.time_taken = ExamDuration - time_remaining'
           /\ NewRow.time_taken \in 0..ExamDuration ]_vars

\* an attempt was submitted with time left and its row is stored
C25_Witness ==
  /\ Submitted
  /\ exam_results # << >>
  /\ time_remaining > 0
  /\ exam_results[Len(exam_results)].time_taken = ExamDuration - time_remaining
  /\ exam_results[Len(exam_results)].time_taken > 0

SumCorrect(d) == SumOver([k \in DOMAIN d |-> d[k].correct], DOMAIN d)

\* C26: in every row written, the 'correct' counts of the categories add up
\* to the stored score, and so do the 'correct' counts of the difficulties
\* (checked on attempts none of whose writes failed).
C26_RowTalliesSumToScore ==
  [][ (RowAdded /\ ~write_failed') =>
        /\ SumCorrect(NewRow.category_scores) = NewRow.score
        /\ SumCorrect(NewRow.difficulty_scores) = NewRow.score ]_vars

\* C27: during a session the recorded answers have valid question positions
\* as keys and option letters A..D as values, and while the exam is in
\* progress no step removes a position from the recorded answers.
C27_AnswersValidAndGrowing ==
  /\ [](InSession =>
          /\ Answered \subseteq Positions(questions)
          /\ \A p \in Answered : user_answers[p] \in Options)
  /\ [][ InProgress => Answered \subseteq DOMAIN user_answers' ]_vars

\* both questions of an exam are answered and the option selected for the
\* current one differs from the one recorded for it
C27_Witness ==
  /\ InProgress /\ Idle
  /\ Len(questions) = 2
  /\ Answered = Positions(questions)
  /\ selected_option # NoSelection
  /\ selected_option # user_answers[current_question_index]

\* C28: every row written has total_questions >= 1 and the id of the user
\* logged in, who cannot change while an exam is in progress; hence the
\* analytics of no user divide by zero.
C28_RowsHaveQuestionsAndTheirUser ==
  /\ [](\A i \in 1..Len(exam_results) :
          /\ exam_results[i].total_questions >= 1
          /\ exam_results[i].user_id \in Users)
  /\ [](\A u \in Users :
          "raised" \notin DOMAIN get_detailed_analytics(exam_results, u, AnalyticsLimit))
  /\ [][ RowAdded => (NewRow.user_id = current_user /\ NewRow.total_questions = Len(questions)) ]_vars
  /\ [][ InProgress => (current_user \in Users /\ current_user' = current_user) ]_vars

\* an attempt with nothing answered was submitted and its row is stored
C28_Witness ==
  /\ Submitted
  /\ exam_results # << >>
  /\ user_answers = EmptyDict
  /\ exam_results[Len(exam_results)].user_id = current_user
  /\ exam_results[Len(exam_results)].score = 0

RECURSIVE BackTimes(_, _, _)
\* the attributes after Back was pressed k times in a row
BackTimes(n, table, k) ==
  IF k = 0 THEN n ELSE BackTimes(pop_navigation(n, table), table, k - 1)

AtEmptyDashboard(n) ==
  n.screen = "show_admin_dashboard" /\ n.navigation_stack = << >>

\* C29: wherever the admin is shown a Back button, pressing it at most once
\* per stack entry and once more ends at the dashboard with an empty stack,
\* and no press leaves everything as it was.
C29_BackReturnsToEmptyDashboard ==
  (screen \in AdminScreens \cup {"show_system_settings"}) =>
     /\ pop_navigation(Nv, users) # Nv
     /\ \E k \in 1..(Len(navigation_stack) + 1) : AtEmptyDashboard(BackTimes(Nv, users, k))

TypeOK ==
  /\ screen \in {"login", "instructions", "exam", "results", "show_admin_dashboard",
                 "show_system_settings"} \cup AdminScreens
  /\ after_pending \in 0..1
  /\ Len(dialogs) <= 2
====
